---- MODULE Spec2Model ----
(***************************************************************************)
(* Loan / EMI schedule generation and overdue accrual of the loan backend. *)
(*                                                                         *)
(* The store (the Loan and EMI collections) is shared by request handlers  *)
(* that run as async functions: a handler runs without interruption        *)
(* between two awaits and every awaited store call is one atomic store     *)
(* operation.  Each action below is therefore one store operation of one   *)
(* handler together with the in-memory code that follows it up to the      *)
(* next await.  Documents are saved the way the document mapper saves      *)
(* them: save() writes the paths whose in-memory value differs from the    *)
(* value that was loaded, and no other path.                               *)
(*                                                                         *)
(* Dates are midnight-normalised everywhere in the source                  *)
(* (setHours(0,0,0,0)), so a date is the integer number of its day and a   *)
(* difference in milliseconds divided by 24*60*60*1000 is a difference of  *)
(* day numbers (no daylight-saving shift in the server's time zone).       *)
(* Timestamps that no handler reads back (paidAt, paymentRequestedAt,      *)
(* requestCanceledAt, razorpayPaymentId) and notifications are left out.   *)
(* No document is deleted here, so every findById of a known id finds its  *)
(* document (the 404 branches and the `if (loan)` guards are not taken).   *)
(***************************************************************************)
EXTENDS Integers, Sequences, FiniteSets, TLC

VARIABLES
    today,      \* the server clock, as a day number (new Date() at midnight)
    loans,      \* the Loan collection: loan id -> document
    emis,       \* the EMI collection: sequence of documents, index = _id
    procs,      \* the request handlers in flight: their position and locals
    lastDone,   \* the response of the handler that finished last
    waivers,    \* the number of penalty waivers accepted so far
    users,      \* the User collection: user id -> role
    removed     \* the loans and EMIs deleted from their collections

vars == <<today, loans, emis, procs, lastDone, waivers, users, removed>>

-----------------------------------------------------------------------------
(* Bounds of the model *)

MaxDay == 3             \* SpecSeq, SpecGen: the clock runs from day 0 to MaxDay
MaxRaceDay == 2         \* Spec, SpecSweeps: the clock runs from day 0 to MaxRaceDay
MaxWaivers == 1         \* at most MaxWaivers penalty waivers are accepted in a run
MaxGenDay == 1          \* SpecGen: the clock runs from day 0 to MaxGenDay
MaxGenDays == 7         \* SpecGen: totalDays ranges over 1..MaxGenDays (and 364, 365)
MaxFixDay == 3          \* SpecFix: the clock moves between day 0 and MaxFixDay
MaxGenSpan == 3         \* SpecGen: amount ranges over MinAmount..MinAmount+MaxGenSpan (and more)

(* Program constants *)

MinAmount == 1000
MaxAmount == 100000
MinTotalDays == 1
MaxTotalDays == 365
InterestRate == 20

Procs == {"h1", "h2"}   \* two handlers may be in flight at once
LoanIds == {1}
UserId == 1

NoDate == -1

\* The users of the store at the start: the applicant of the loans and two
\* admins
UserIds == {1, 2, 3}
Roles == {"admin", "manager", "user"}
InitUsers == [u \in UserIds |-> IF u = UserId THEN "user" ELSE "admin"]

\* Documents deleted from the Loan and EMI collections, by _id
NoneRemoved == [loans |-> {}, emis |-> {}]

-----------------------------------------------------------------------------
(* Arithmetic of the source *)

\* Math.ceil(a / b) for b > 0
Ceil(a, b) == -((-a) \div b)

\* Math.floor((today - dueDate) / (24*60*60*1000)) on midnight-normalised dates
DaysOverdue(now, dueDate) == now - dueDate

\* Math.ceil(principalAmount / 2) * daysOverdue
PenaltyFor(principalAmount, daysOverdue) == Ceil(principalAmount, 2) * daysOverdue

\* reduce((sum, x) => sum + x, 0) over a sequence of numbers; the sum is
\* taken by halves, which keeps the evaluation shallow for long sequences
RECURSIVE SumSeq(_)
SumSeq(s) ==
    IF Len(s) = 0 THEN 0
    ELSE IF Len(s) = 1 THEN s[1]
    ELSE LET half == Len(s) \div 2
         IN  SumSeq(SubSeq(s, 1, half)) + SumSeq(SubSeq(s, half + 1, Len(s)))

-----------------------------------------------------------------------------
(* Documents *)

NewLoan(amount, totalDays) ==
    [userId |-> UserId, amount |-> amount, totalDays |-> totalDays,
     interestRate |-> InterestRate, status |-> "pending",
     startDate |-> NoDate, endDate |-> NoDate, approvedAt |-> NoDate,
     totalPaid |-> 0, remainingBalance |-> 0, penaltyAmount |-> 0]

\* document.save(): only the modified paths are written
SaveDoc(stored, loaded, mem) ==
    [f \in DOMAIN stored |-> IF mem[f] # loaded[f] THEN mem[f] ELSE stored[f]]

Idle == [pc |-> "idle", op |-> "none"]

AllIdle == \A p \in Procs : procs[p].pc = "idle"

-----------------------------------------------------------------------------
(* generateEMISchedule *)

DailyPrincipal(loan) == Ceil(loan.amount, loan.totalDays)

\* totalInterest = amount * 0.20; Math.ceil(totalInterest / totalDays).  For
\* every integer amount in 1000..100000 and totalDays in 1..365 the double
\* result equals the exact value computed here.
DailyInterestMutPlusOne(loan) == (loan.amount * 20) \div (100 * loan.totalDays) + 1
DailyInterest(loan) == Ceil(loan.amount * 20, 100 * loan.totalDays)

\* startDate: tomorrow at midnight
StartDateMutNoShift(now) == now
StartDate(now) == now + 1

ScheduleEMI(loanId, loan, startDate, day) ==
    [loanId |-> loanId, userId |-> loan.userId, dayNumber |-> day,
     principalAmount |-> DailyPrincipal(loan),
     interestAmount |-> DailyInterest(loan),
     penaltyAmount |-> 0,
     totalAmount |-> DailyPrincipal(loan) + DailyInterest(loan),
     dueDate |-> startDate + day - 1,
     status |-> "pending",
     paymentRequested |-> FALSE, requestCanceled |-> FALSE,
     paidViaRequest |-> FALSE]

ScheduleMutShort(loanId, loan, now) ==
    [day \in 1..(loan.totalDays - 1) |-> ScheduleEMI(loanId, loan, StartDate(now), day)]
ScheduleMutFloor(loanId, loan, now) ==
    [day \in 1..loan.totalDays |->
        [ScheduleEMI(loanId, loan, StartDate(now), day) EXCEPT
            !.principalAmount = loan.amount \div loan.totalDays,
            !.interestAmount = (loan.amount * 20) \div (100 * loan.totalDays)]]
Schedule(loanId, loan, now) ==
    [day \in 1..loan.totalDays |-> ScheduleEMI(loanId, loan, StartDate(now), day)]

-----------------------------------------------------------------------------
(* PUT /loans/:id/approve *)

ValidAmount(a) == a >= MinAmount /\ a <= MaxAmount
ValidDays(d) == d >= MinTotalDays /\ d <= MaxTotalDays

\* A field of the request body: <<>> when absent (null), <<v>> when it is a
\* JSON number, <<"text", s>> when it is a JSON string of the characters s
Absent == <<>>
Given(v) == <<v>>
Text(s) == <<"text", s>>
IsNull(field) == Len(field) = 0

\* String(v) of an integer: its decimal digits after an optional minus sign
DecimalDigits == <<"0", "1", "2", "3", "4", "5", "6", "7", "8", "9">>
RECURSIVE NatText(_)
NatText(n) ==
    IF n < 10 THEN <<DecimalDigits[n + 1]>>
    ELSE Append(NatText(n \div 10), DecimalDigits[(n % 10) + 1])
ToText(v) == IF v < 0 THEN <<"-">> \o NatText(-v) ELSE NatText(v)

\* parseInt(string) with no radix: leading white space is skipped, a sign is
\* read, "0x" or "0X" selects radix 16, the longest prefix of digits is the
\* value and whatever follows it is ignored; NaN when there is no digit
WhiteSpace == {" ", "\t", "\n", "\r"}
HexLower == DecimalDigits \o <<"a", "b", "c", "d", "e", "f">>
HexUpper == DecimalDigits \o <<"A", "B", "C", "D", "E", "F">>
NotADigit == 16
DigitVal(c) ==
    IF \E i \in 1..16 : HexLower[i] = c \/ HexUpper[i] = c
    THEN (CHOOSE i \in 1..16 : HexLower[i] = c \/ HexUpper[i] = c) - 1
    ELSE NotADigit
RECURSIVE SkipSpace(_)
SkipSpace(s) ==
    IF Len(s) > 0 /\ s[1] \in WhiteSpace THEN SkipSpace(Tail(s)) ELSE s
RECURSIVE ParseDigits(_, _, _, _)
ParseDigits(s, radix, i, acc) ==
    IF i <= Len(s) /\ DigitVal(s[i]) < radix
    THEN ParseDigits(s, radix, i + 1, acc * radix + DigitVal(s[i]))
    ELSE [count |-> i - 1, value |-> acc]
ParseText(s) ==
    LET t == SkipSpace(s)
        signed == Len(t) > 0 /\ t[1] \in {"+", "-"}
        u == IF signed THEN Tail(t) ELSE t
        hex == Len(u) >= 2 /\ u[1] = "0" /\ u[2] \in {"x", "X"}
        r == IF hex THEN ParseDigits(SubSeq(u, 3, Len(u)), 16, 1, 0)
             ELSE ParseDigits(u, 10, 1, 0)
    IN  [nan |-> r.count = 0,
         value |-> IF signed /\ t[1] = "-" THEN -r.value ELSE r.value]
ParseInt(field) ==
    ParseText(IF Len(field) = 1 THEN ToText(field[1]) ELSE field[2])

\* Loan.findById, the checks, and generateEMISchedule up to EMI.insertMany
ApproveFind(p, l, amount, totalDays) ==
    /\ procs[p].pc = "idle"
    /\ LET loan == loans[l]
           amt == ParseInt(amount)
           days == ParseInt(totalDays)
           mem == [loan EXCEPT
                     !.amount = IF ~IsNull(amount) THEN amt.value ELSE @,
                     !.totalDays = IF ~IsNull(totalDays) THEN days.value ELSE @,
                     !.status = "approved",
                     !.interestRate = InterestRate]
       IN  IF l \in removed.loans
           THEN /\ lastDone' = [op |-> "approve", code |-> 404]
                /\ UNCHANGED procs
           ELSE IF \/ loan.status # "pending"
                   \/ ~IsNull(amount) /\ (amt.nan \/ ~ValidAmount(amt.value))
                   \/ ~IsNull(totalDays) /\ (days.nan \/ ~ValidDays(days.value))
           THEN /\ lastDone' = [op |-> "approve", code |-> 400]
                /\ UNCHANGED procs
           ELSE /\ procs' = [procs EXCEPT ![p] =
                      [pc |-> "approveInsert", op |-> "approve", id |-> l,
                       today |-> today, loaded |-> loan, mem |-> mem,
                       body |-> [amount |-> amount, totalDays |-> totalDays],
                       docs |-> Schedule(l, mem, today)]]
                /\ UNCHANGED lastDone
    /\ UNCHANGED <<today, loans, emis, waivers, users, removed>>

\* The EMI store's bulk-create: the documents are appended as they are
InsertMany(coll, docs) == coll \o docs

\* EMI.insertMany(emis), then the dates of the loan are set in memory.  With
\* an empty schedule emis[emis.length - 1] is undefined and reading its
\* dueDate throws: the route's catch block answers 500 and nothing is saved.
ApproveInsert(p) ==
    /\ procs[p].pc = "approveInsert"
    /\ emis' = InsertMany(emis, procs[p].docs)
    /\ IF procs[p].docs = <<>>
       THEN /\ procs' = [procs EXCEPT ![p] = Idle]
            /\ lastDone' = [op |-> "approve", code |-> 500]
       ELSE /\ LET startDate == StartDate(procs[p].today)
               IN  procs' = [procs EXCEPT ![p].pc = "approveSave",
                               ![p].mem = [@ EXCEPT
                                  !.startDate = startDate,
                                  !.endDate = procs[p].docs[Len(procs[p].docs)].dueDate,
                                  !.approvedAt = today]]
            /\ UNCHANGED lastDone
    /\ UNCHANGED <<today, loans, waivers, users, removed>>

\* loan.save() and the response; the save of a loan deleted in the meantime
\* finds no document and throws
ApproveSave(p) ==
    /\ procs[p].pc = "approveSave"
    /\ LET l == procs[p].id
       IN  IF l \in removed.loans
           THEN /\ UNCHANGED loans
                /\ lastDone' = [op |-> "approve", code |-> 500]
           ELSE /\ loans' = [loans EXCEPT ![l] =
                               SaveDoc(@, procs[p].loaded, procs[p].mem)]
                /\ lastDone' = [op |-> "approve", code |-> 200]
    /\ procs' = [procs EXCEPT ![p] = Idle]
    /\ UNCHANGED <<today, emis, waivers, users, removed>>

-----------------------------------------------------------------------------
(* PUT /loans/:id/reject *)

\* Loan.findById, the check, loan.status = 'rejected' on the loaded document,
\* the notification and the response.  The handler has no loan.save(): the
\* store is not written.
Reject(p, l) ==
    /\ procs[p].pc = "idle"
    /\ LET loan == loans[l]
           mem == [loan EXCEPT !.status = "rejected"]
       IN  IF loan.status # "pending"
           THEN lastDone' = [op |-> "reject", code |-> 400]
           ELSE lastDone' = [op |-> "reject", code |-> 200, status |-> mem.status]
    /\ UNCHANGED <<today, loans, emis, procs, waivers, users, removed>>

-----------------------------------------------------------------------------
(* processOverdueEMIs *)

\* EMI.find({status: {$in: ['pending','overdue']}, dueDate: {$lt: today}})
RECURSIVE LateIds(_, _, _)
LateIds(coll, now, i) ==
    IF i > Len(coll) THEN <<>>
    ELSE IF /\ i \notin removed.emis
            /\ coll[i].status \in {"pending", "overdue"} /\ coll[i].dueDate < now
         THEN <<i>> \o LateIds(coll, now, i + 1)
         ELSE LateIds(coll, now, i + 1)

\* The body of the loop on the loaded document: status, penaltyAmount and
\* totalAmount as they are in memory when save() is called
AccrueMutNoTotal(emi, now) ==
    LET newPenalty == PenaltyFor(emi.principalAmount, DaysOverdue(now, emi.dueDate))
    IN  [emi EXCEPT !.status = "overdue", !.penaltyAmount = newPenalty]
AccrueMutAdd(emi, now) ==
    LET newPenalty == emi.penaltyAmount + Ceil(emi.principalAmount, 2)
    IN  [emi EXCEPT !.status = "overdue", !.penaltyAmount = newPenalty,
                    !.totalAmount = emi.principalAmount + emi.interestAmount + newPenalty]
AccrueMutOffByOne(emi, now) ==
    LET newPenalty == PenaltyFor(emi.principalAmount, DaysOverdue(now, emi.dueDate) + 1)
    IN  [emi EXCEPT !.status = "overdue", !.penaltyAmount = newPenalty,
                    !.totalAmount = emi.principalAmount + emi.interestAmount + newPenalty]
Accrue(emi, now) ==
    LET newPenalty == PenaltyFor(emi.principalAmount, DaysOverdue(now, emi.dueDate))
    IN  IF newPenalty # emi.penaltyAmount
        THEN [emi EXCEPT !.status = "overdue", !.penaltyAmount = newPenalty,
                         !.totalAmount = emi.principalAmount + emi.interestAmount + newPenalty]
        ELSE [emi EXCEPT !.status = "overdue"]

\* The loop runs on in memory until a document has to be saved: the index of
\* the next loaded document, from i on, for which save() is called
RECURSIVE NextToSave(_, _, _)
NextToSave(docs, now, i) ==
    IF i > Len(docs) THEN i
    ELSE IF DaysOverdue(now, docs[i].dueDate) > 0 /\ Accrue(docs[i], now) # docs[i]
         THEN i
         ELSE NextToSave(docs, now, i + 1)

\* processedCount++
ProcessedMutSame(count) == count
Processed(count) == count + 1

\* The sweep goes on with document i, or returns processedCount
SweepContinue(p, i, count) ==
    LET pr == procs[p]
        j == NextToSave(pr.docs, pr.today, i)
    IN  IF j > Len(pr.docs)
        THEN /\ procs' = [procs EXCEPT ![p] = Idle]
             /\ lastDone' = [op |-> "sweep", code |-> 200, count |-> count,
                             today |-> pr.today, repeat |-> pr.repeat,
                             afterFix |-> pr.afterFix]
        ELSE /\ procs' = [procs EXCEPT ![p].pc = "sweepSave", ![p].i = j,
                                       ![p].count = count]
             /\ UNCHANGED lastDone

\* today = new Date() at midnight; EMI.find(...); the loop up to the first save
SweepFind(p) ==
    /\ procs[p].pc = "idle"
    /\ LET ids == LateIds(emis, today, 1)
           docs == [k \in DOMAIN ids |-> emis[ids[k]]]
           j == NextToSave(docs, today, 1)
           repeat == lastDone.op = "sweep" /\ lastDone.code = 200 /\ lastDone.today = today
           afterFix == lastDone.op = "fix" /\ lastDone.today = today
       IN  IF j > Len(docs)
           THEN /\ lastDone' = [op |-> "sweep", code |-> 200, count |-> 0,
                                today |-> today, repeat |-> repeat,
                                afterFix |-> afterFix]
                /\ UNCHANGED procs
           ELSE /\ procs' = [procs EXCEPT ![p] =
                      [pc |-> "sweepSave", op |-> "sweep", today |-> today,
                       ids |-> ids, docs |-> docs, i |-> j, count |-> 0,
                       repeat |-> repeat, afterFix |-> afterFix]]
                /\ UNCHANGED lastDone
    /\ UNCHANGED <<today, loans, emis, waivers, users, removed>>

\* The routes that run the sweep, and what each answers when the sweep
\* throws: POST /process-overdues lets the error reach its catch block (500),
\* GET /emis/today and GET /emis catch it on the call itself
\* (processOverdueEMIs().catch(...)), go on with their listing and answer 200
SweepRoutes == {"processOverdues", "emisToday", "emis"}
SweepErrorCode(route) == IF route = "processOverdues" THEN 500 ELSE 200

\* emi.save() of document i; the save of an EMI deleted in the meantime finds
\* no document and throws
SweepSave(p) ==
    /\ procs[p].pc = "sweepSave"
    /\ LET pr == procs[p]
           doc == pr.docs[pr.i]
           mem == Accrue(doc, pr.today)
       IN  IF pr.ids[pr.i] \in removed.emis
           THEN /\ UNCHANGED emis
                /\ procs' = [procs EXCEPT ![p] = Idle]
                /\ \E route \in SweepRoutes :
                      lastDone' = [op |-> "sweepError", route |-> route,
                                   code |-> SweepErrorCode(route)]
           ELSE /\ emis' = [emis EXCEPT ![pr.ids[pr.i]] = SaveDoc(@, doc, mem)]
                /\ IF mem.penaltyAmount # doc.penaltyAmount
                   THEN /\ procs' = [procs EXCEPT ![p].pc = "sweepInc"]
                        /\ UNCHANGED lastDone
                   ELSE SweepContinue(p, pr.i + 1, Processed(pr.count))
    /\ UNCHANGED <<today, loans, waivers, users, removed>>

\* Loan.findByIdAndUpdate(emi.loanId, {$inc: {penaltyAmount: delta}})
SweepIncMutNone(loan, delta) == loan
SweepInc(loan, delta) == [loan EXCEPT !.penaltyAmount = @ + delta]

SweepIncLoan(p) ==
    /\ procs[p].pc = "sweepInc"
    /\ LET pr == procs[p]
           doc == pr.docs[pr.i]
           delta == Accrue(doc, pr.today).penaltyAmount - doc.penaltyAmount
       IN  /\ loans' = IF doc.loanId \in removed.loans THEN loans
                       ELSE [loans EXCEPT ![doc.loanId] = SweepInc(@, delta)]
           /\ SweepContinue(p, pr.i + 1, Processed(pr.count))
    /\ UNCHANGED <<today, emis, waivers, users, removed>>

\* The store rejects Loan.findByIdAndUpdate, or the process stops before it:
\* the sweep ends after emi.save() without the increment of the loan
SweepFail(p, route) ==
    /\ procs[p].pc = "sweepInc"
    /\ procs' = [procs EXCEPT ![p] = Idle]
    /\ lastDone' = [op |-> "sweepError", route |-> route,
                    code |-> SweepErrorCode(route)]
    /\ UNCHANGED <<today, loans, emis, waivers, users, removed>>

-----------------------------------------------------------------------------
(* PUT /emis/:id/mark-paid *)

MarkPaidFind(p, e) ==
    /\ procs[p].pc = "idle"
    /\ LET emi == emis[e]
           mem == [emi EXCEPT !.status = "paid",
                              !.paymentRequested = FALSE,
                              !.requestCanceled = FALSE,
                              !.paidViaRequest = IF emi.paymentRequested THEN TRUE ELSE @]
       IN  IF emi.status = "paid"
           THEN /\ lastDone' = [op |-> "markPaid", code |-> 400]
                /\ UNCHANGED procs
           ELSE /\ procs' = [procs EXCEPT ![p] =
                      [pc |-> "markPaidSave", op |-> "markPaid", id |-> e,
                       loaded |-> emi, mem |-> mem]]
                /\ UNCHANGED lastDone
    /\ UNCHANGED <<today, loans, emis, waivers, users, removed>>

\* emi.save()
MarkPaidSave(p) ==
    /\ procs[p].pc = "markPaidSave"
    /\ emis' = [emis EXCEPT ![procs[p].id] = SaveDoc(@, procs[p].loaded, procs[p].mem)]
    /\ procs' = [procs EXCEPT ![p].pc = "markPaidLoan"]
    /\ UNCHANGED <<today, loans, lastDone, waivers, users, removed>>

\* Loan.findById(emi.loanId); totalPaid and remainingBalance in memory
MarkPaidLoan(p) ==
    /\ procs[p].pc = "markPaidLoan"
    /\ LET emi == procs[p].mem
           loan == loans[emi.loanId]
       IN  procs' = [procs EXCEPT ![p] =
              [pc |-> "markPaidCount", op |-> "markPaid", id |-> procs[p].id,
               mem |-> emi, loanLoaded |-> loan,
               loanMem |-> [loan EXCEPT
                  !.totalPaid = @ + emi.totalAmount,
                  !.remainingBalance = @ - (emi.principalAmount + emi.interestAmount)]]]
    /\ UNCHANGED <<today, loans, emis, lastDone, waivers, users, removed>>

\* EMI.countDocuments({loanId, status: {$ne: 'paid'}})
MarkPaidCount(p) ==
    /\ procs[p].pc = "markPaidCount"
    /\ LET l == procs[p].mem.loanId
           pendingCount == Cardinality({i \in DOMAIN emis :
                               emis[i].loanId = l /\ emis[i].status # "paid"})
       IN  procs' = [procs EXCEPT ![p].pc = "markPaidLoanSave",
                        ![p].loanMem.status = IF pendingCount = 0 THEN "completed" ELSE @]
    /\ UNCHANGED <<today, loans, emis, lastDone, waivers, users, removed>>

\* loan.save() and the response
MarkPaidLoanSave(p) ==
    /\ procs[p].pc = "markPaidLoanSave"
    /\ loans' = [loans EXCEPT ![procs[p].mem.loanId] =
                    SaveDoc(@, procs[p].loanLoaded, procs[p].loanMem)]
    /\ lastDone' = [op |-> "markPaid", code |-> 200]
    /\ procs' = [procs EXCEPT ![p] = Idle]
    /\ UNCHANGED <<today, emis, waivers, users, removed>>

-----------------------------------------------------------------------------
(* PUT /emis/:id/cancel-request *)

\* The document in memory after the flags and the overdue computation
CancelMemMutSameDay(emi, now) ==
    LET flags == [emi EXCEPT !.paymentRequested = FALSE, !.requestCanceled = TRUE]
        newPenalty == PenaltyFor(emi.principalAmount, DaysOverdue(now, emi.dueDate))
    IN  IF emi.dueDate <= now
        THEN [flags EXCEPT !.status = "overdue", !.penaltyAmount = newPenalty,
                !.totalAmount = emi.principalAmount + emi.interestAmount + newPenalty]
        ELSE flags
CancelMem(emi, now) ==
    LET flags == [emi EXCEPT !.paymentRequested = FALSE, !.requestCanceled = TRUE]
        newPenalty == PenaltyFor(emi.principalAmount, DaysOverdue(now, emi.dueDate))
    IN  IF emi.dueDate < now /\ DaysOverdue(now, emi.dueDate) > 0
        THEN [flags EXCEPT !.status = "overdue", !.penaltyAmount = newPenalty,
                !.totalAmount = emi.principalAmount + emi.interestAmount + newPenalty]
        ELSE flags

\* EMI.findById, the checks and the computation
CancelRequestFind(p, e) ==
    /\ procs[p].pc = "idle"
    /\ LET emi == emis[e]
           mem == CancelMem(emi, today)
       IN  IF emi.status = "paid" \/ ~emi.paymentRequested
           THEN /\ lastDone' = [op |-> "cancelRequest", code |-> 400]
                /\ UNCHANGED procs
           ELSE /\ procs' = [procs EXCEPT ![p] =
                      [pc |-> IF mem.penaltyAmount # emi.penaltyAmount
                              THEN "cancelInc" ELSE "cancelSave",
                       op |-> "cancelRequest", id |-> e, today |-> today,
                       loaded |-> emi, mem |-> mem]]
                /\ UNCHANGED lastDone
    /\ UNCHANGED <<today, loans, emis, waivers, users, removed>>

\* Loan.findByIdAndUpdate(emi.loanId, {$inc: {penaltyAmount: newPenalty - oldPenalty}})
CancelRequestIncMutSkip(p) ==
    /\ procs[p].pc = "cancelInc"
    /\ procs' = [procs EXCEPT ![p].pc = "cancelSave"]
    /\ UNCHANGED <<today, loans, emis, lastDone, waivers, users, removed>>
CancelRequestInc(p) ==
    /\ procs[p].pc = "cancelInc"
    /\ LET pr == procs[p]
       IN  loans' = [loans EXCEPT ![pr.mem.loanId].penaltyAmount =
                        @ + (pr.mem.penaltyAmount - pr.loaded.penaltyAmount)]
    /\ procs' = [procs EXCEPT ![p].pc = "cancelSave"]
    /\ UNCHANGED <<today, emis, lastDone, waivers, users, removed>>

\* emi.save() and the response
CancelRequestSave(p) ==
    /\ procs[p].pc = "cancelSave"
    /\ emis' = [emis EXCEPT ![procs[p].id] = SaveDoc(@, procs[p].loaded, procs[p].mem)]
    /\ lastDone' = [op |-> "cancelRequest", code |-> 200,
                    id |-> procs[p].id, today |-> procs[p].today]
    /\ procs' = [procs EXCEPT ![p] = Idle]
    /\ UNCHANGED <<today, loans, waivers, users, removed>>

-----------------------------------------------------------------------------
(* PUT /emis/:id/clear-overdue *)

\* The two checks that answer 400: 'EMI already paid', 'No overdue charges
\* to clear'
WaiverRefusedMutPaidOk(emi) == emi.penaltyAmount <= 0
WaiverRefused(emi) == emi.status = "paid" \/ emi.penaltyAmount <= 0

\* EMI.findById, the checks and the cleared penalty in memory
ClearOverdueFind(p, e) ==
    /\ procs[p].pc = "idle"
    /\ waivers < MaxWaivers
    /\ LET emi == emis[e]
           mem == [emi EXCEPT !.penaltyAmount = 0,
                              !.totalAmount = emi.principalAmount + emi.interestAmount]
       IN  IF WaiverRefused(emi)
           THEN /\ lastDone' = [op |-> "clearOverdue", code |-> 400, id |-> e]
                /\ UNCHANGED <<procs, waivers, users, removed>>
           ELSE /\ procs' = [procs EXCEPT ![p] =
                      [pc |-> "clearSave", op |-> "clearOverdue", id |-> e,
                       loaded |-> emi, mem |-> mem]]
                /\ waivers' = waivers + 1
                /\ UNCHANGED lastDone
    /\ UNCHANGED <<today, loans, emis, users, removed>>

\* emi.save()
ClearOverdueSave(p) ==
    /\ procs[p].pc = "clearSave"
    /\ emis' = [emis EXCEPT ![procs[p].id] = SaveDoc(@, procs[p].loaded, procs[p].mem)]
    /\ procs' = [procs EXCEPT ![p].pc = "clearLoan"]
    /\ UNCHANGED <<today, loans, lastDone, waivers, users, removed>>

\* loan.penaltyAmount = Math.max(0, (loan.penaltyAmount || 0) - oldPenalty)
ClearLoanMutKeep(loan, oldPenalty) == loan
ClearLoan(loan, oldPenalty) ==
    [loan EXCEPT !.penaltyAmount =
        IF @ - oldPenalty > 0 THEN @ - oldPenalty ELSE 0]

\* Loan.findById(emi.loanId) and the new penaltyAmount in memory
ClearOverdueLoan(p) ==
    /\ procs[p].pc = "clearLoan"
    /\ LET loan == loans[procs[p].mem.loanId]
       IN  procs' = [procs EXCEPT ![p] =
              [pc |-> "clearLoanSave", op |-> "clearOverdue", id |-> procs[p].id,
               loaded |-> procs[p].loaded, mem |-> procs[p].mem,
               loanLoaded |-> loan,
               loanMem |-> ClearLoan(loan, procs[p].loaded.penaltyAmount)]]
    /\ UNCHANGED <<today, loans, emis, lastDone, waivers, users, removed>>

\* loan.save() and the response
ClearOverdueLoanSave(p) ==
    /\ procs[p].pc = "clearLoanSave"
    /\ loans' = [loans EXCEPT ![procs[p].mem.loanId] =
                    SaveDoc(@, procs[p].loanLoaded, procs[p].loanMem)]
    /\ lastDone' = [op |-> "clearOverdue", code |-> 200]
    /\ procs' = [procs EXCEPT ![p] = Idle]
    /\ UNCHANGED <<today, emis, waivers, users, removed>>

-----------------------------------------------------------------------------
(* POST /:id/request-payment *)

RequestPaymentFind(p, e, user) ==
    /\ procs[p].pc = "idle"
    /\ LET emi == emis[e]
           mem == [emi EXCEPT !.paymentRequested = TRUE, !.requestCanceled = FALSE]
       IN  IF emi.userId # user
           THEN /\ lastDone' = [op |-> "requestPayment", code |-> 403]
                /\ UNCHANGED procs
           ELSE IF emi.status = "paid" \/ emi.paymentRequested
           THEN /\ lastDone' = [op |-> "requestPayment", code |-> 400]
                /\ UNCHANGED procs
           ELSE /\ procs' = [procs EXCEPT ![p] =
                      [pc |-> "requestSave", op |-> "requestPayment", id |-> e,
                       loaded |-> emi, mem |-> mem]]
                /\ UNCHANGED lastDone
    /\ UNCHANGED <<today, loans, emis, waivers, users, removed>>

\* emi.save() and the response
RequestPaymentSave(p) ==
    /\ procs[p].pc = "requestSave"
    /\ emis' = [emis EXCEPT ![procs[p].id] = SaveDoc(@, procs[p].loaded, procs[p].mem)]
    /\ lastDone' = [op |-> "requestPayment", code |-> 200]
    /\ procs' = [procs EXCEPT ![p] = Idle]
    /\ UNCHANGED <<today, loans, waivers, users, removed>>

-----------------------------------------------------------------------------
(* The clock *)

Tick(lastDay) ==
    /\ today < lastDay
    /\ today' = today + 1
    /\ UNCHANGED <<loans, emis, procs, lastDone, waivers, users, removed>>

-----------------------------------------------------------------------------
(* scripts/fix-overdues.js: the correction pass *)

\* EMI.find({status: {$in: ['pending','overdue']}})
RECURSIVE UnpaidIds(_, _)
UnpaidIds(coll, i) ==
    IF i > Len(coll) THEN <<>>
    ELSE IF coll[i].status \in {"pending", "overdue"}
         THEN <<i>> \o UnpaidIds(coll, i + 1)
         ELSE UnpaidIds(coll, i + 1)

\* The branch conditions under which the loop saves the EMI
NeedsFix(emi, now) ==
    LET days == DaysOverdue(now, emi.dueDate)
        correctPenalty == Ceil(emi.principalAmount, 2) * days
    IN  IF days <= 0
        THEN emi.status = "overdue" \/ emi.penaltyAmount > 0
        ELSE \/ emi.status # "overdue"
             \/ emi.penaltyAmount # correctPenalty
             \/ emi.totalAmount #
                  emi.principalAmount + emi.interestAmount + correctPenalty

\* The EMI as the loop saves it
FixMemMutNoAccrue(emi, now) ==
    IF DaysOverdue(now, emi.dueDate) <= 0
    THEN [emi EXCEPT !.status = "pending", !.penaltyAmount = 0,
                     !.totalAmount = emi.principalAmount + emi.interestAmount]
    ELSE [emi EXCEPT !.status = "overdue"]
FixMemMutKeepStatus(emi, now) ==
    LET days == DaysOverdue(now, emi.dueDate)
        correctPenalty == Ceil(emi.principalAmount, 2) * days
    IN  IF days <= 0
        THEN [emi EXCEPT !.penaltyAmount = 0,
                         !.totalAmount = emi.principalAmount + emi.interestAmount]
        ELSE [emi EXCEPT !.status = "overdue", !.penaltyAmount = correctPenalty,
                 !.totalAmount = emi.principalAmount + emi.interestAmount + correctPenalty]
FixMem(emi, now) ==
    LET days == DaysOverdue(now, emi.dueDate)
        correctPenalty == Ceil(emi.principalAmount, 2) * days
    IN  IF days <= 0
        THEN [emi EXCEPT !.status = "pending", !.penaltyAmount = 0,
                         !.totalAmount = emi.principalAmount + emi.interestAmount]
        ELSE [emi EXCEPT !.status = "overdue", !.penaltyAmount = correctPenalty,
                 !.totalAmount = emi.principalAmount + emi.interestAmount + correctPenalty]

RECURSIVE FixNextToSave(_, _, _)
FixNextToSave(docs, now, i) ==
    IF i > Len(docs) THEN i
    ELSE IF NeedsFix(docs[i], now) THEN i
         ELSE FixNextToSave(docs, now, i + 1)

\* The keys of loanPenaltyMap, in the order in which the loop adds them: the
\* loans of the unpaid EMIs
RECURSIVE FixLoanIds(_, _, _)
FixLoanIds(docs, i, seen) ==
    IF i > Len(docs) THEN <<>>
    ELSE IF docs[i].loanId \in seen
         THEN FixLoanIds(docs, i + 1, seen)
         ELSE <<docs[i].loanId>> \o FixLoanIds(docs, i + 1, seen \cup {docs[i].loanId})

\* loanPenaltyMap[l] after the loop: the correct penalties of the loaded
\* (unpaid) EMIs of loan l that are overdue
LoanPenaltyMap(docs, now, l) ==
    SumSeq([k \in DOMAIN docs |->
        IF docs[k].loanId = l /\ DaysOverdue(now, docs[k].dueDate) > 0
        THEN Ceil(docs[k].principalAmount, 2) * DaysOverdue(now, docs[k].dueDate)
        ELSE 0])

FixDone(p, reset) ==
    /\ procs' = [procs EXCEPT ![p] = Idle]
    /\ lastDone' = [op |-> "fix", code |-> 200, today |-> procs[p].today,
                    reset |-> reset]

\* The second loop goes on with the j-th key of loanPenaltyMap
FixLoanNext(p, j) ==
    IF j > Len(procs[p].lids)
    THEN FixDone(p, procs[p].reset)
    ELSE /\ procs' = [procs EXCEPT ![p].pc = "fixLoan", ![p].j = j]
         /\ UNCHANGED lastDone

\* The first loop goes on with document i, then the second loop begins
FixContinue(p, i, reset) ==
    LET pr == procs[p]
        k == FixNextToSave(pr.docs, pr.today, i)
    IN  IF k <= Len(pr.docs)
        THEN /\ procs' = [procs EXCEPT ![p].pc = "fixSave", ![p].i = k,
                                       ![p].reset = reset]
             /\ UNCHANGED lastDone
        ELSE IF pr.lids = <<>>
        THEN FixDone(p, reset)
        ELSE /\ procs' = [procs EXCEPT ![p].pc = "fixLoan", ![p].j = 1,
                                       ![p].reset = reset]
             /\ UNCHANGED lastDone

\* today = new Date() at midnight; EMI.find(...); the loop up to the first save
FixFind(p) ==
    /\ procs[p].pc = "idle"
    /\ LET ids == UnpaidIds(emis, 1)
           docs == [k \in DOMAIN ids |-> emis[ids[k]]]
           lids == FixLoanIds(docs, 1, {})
           k == FixNextToSave(docs, today, 1)
           pr == [pc |-> "fixSave", op |-> "fix", today |-> today, ids |-> ids,
                  docs |-> docs, lids |-> lids, i |-> k, j |-> 1, reset |-> 0]
       IN  IF k <= Len(docs)
           THEN /\ procs' = [procs EXCEPT ![p] = pr]
                /\ UNCHANGED lastDone
           ELSE IF lids = <<>>
           THEN /\ lastDone' = [op |-> "fix", code |-> 200, today |-> today,
                                reset |-> 0]
                /\ UNCHANGED procs
           ELSE /\ procs' = [procs EXCEPT ![p] = [pr EXCEPT !.pc = "fixLoan"]]
                /\ UNCHANGED lastDone
    /\ UNCHANGED <<today, loans, emis, waivers, users, removed>>

\* emi.save() in either branch of the first loop; resetToPending counts the
\* EMIs that were not overdue
FixSave(p) ==
    /\ procs[p].pc = "fixSave"
    /\ LET pr == procs[p]
           doc == pr.docs[pr.i]
           mem == FixMem(doc, pr.today)
       IN  /\ emis' = [emis EXCEPT ![pr.ids[pr.i]] = SaveDoc(@, doc, mem)]
           /\ FixContinue(p, pr.i + 1,
                 IF DaysOverdue(pr.today, doc.dueDate) <= 0
                 THEN pr.reset + 1 ELSE pr.reset)
    /\ UNCHANGED <<today, loans, waivers, users, removed>>

\* Loan.findById(loanId) and the comparison with loanPenaltyMap[loanId]
FixLoan(p) ==
    /\ procs[p].pc = "fixLoan"
    /\ LET pr == procs[p]
           l == pr.lids[pr.j]
           loan == loans[l]
           correctPenalty == LoanPenaltyMap(pr.docs, pr.today, l)
       IN  IF loan.penaltyAmount # correctPenalty
           THEN /\ procs' = [procs EXCEPT ![p] =
                      [pc |-> "fixLoanSave", op |-> "fix", today |-> pr.today,
                       lids |-> pr.lids, j |-> pr.j, reset |-> pr.reset,
                       loanLoaded |-> loan,
                       loanMem |-> [loan EXCEPT !.penaltyAmount = correctPenalty]]]
                /\ UNCHANGED lastDone
           ELSE FixLoanNext(p, pr.j + 1)
    /\ UNCHANGED <<today, loans, emis, waivers, users, removed>>

\* loan.save()
FixLoanSave(p) ==
    /\ procs[p].pc = "fixLoanSave"
    /\ LET pr == procs[p]
       IN  /\ loans' = [loans EXCEPT ![pr.lids[pr.j]] =
                          SaveDoc(@, pr.loanLoaded, pr.loanMem)]
           /\ FixLoanNext(p, pr.j + 1)
    /\ UNCHANGED <<today, emis, waivers, users, removed>>

\* The server clock is set back by one day
ClockBack ==
    /\ today > 0
    /\ today' = today - 1
    /\ UNCHANGED <<loans, emis, procs, lastDone, waivers, users, removed>>

-----------------------------------------------------------------------------
(* getLoanStats *)

NoStats ==
    [totalEMIs |-> 0, paidEMIs |-> 0, pendingEMIs |-> 0, overdueEMIs |-> 0,
     totalPaid |-> 0, totalPending |-> 0, totalPenalty |-> 0]

\* The body of emis.forEach
StatsAddMutAnyPenalty(stats, emi) ==
    IF emi.status = "paid"
    THEN [stats EXCEPT !.paidEMIs = @ + 1, !.totalPaid = @ + emi.totalAmount,
                       !.totalPenalty = @ + emi.penaltyAmount]
    ELSE IF emi.status = "pending"
    THEN [stats EXCEPT !.pendingEMIs = @ + 1, !.totalPending = @ + emi.totalAmount]
    ELSE [stats EXCEPT !.overdueEMIs = @ + 1, !.totalPending = @ + emi.totalAmount,
                       !.totalPenalty = @ + emi.penaltyAmount]
StatsAdd(stats, emi) ==
    IF emi.status = "paid"
    THEN [stats EXCEPT !.paidEMIs = @ + 1, !.totalPaid = @ + emi.totalAmount]
    ELSE IF emi.status = "pending"
    THEN [stats EXCEPT !.pendingEMIs = @ + 1, !.totalPending = @ + emi.totalAmount]
    ELSE IF emi.status = "overdue"
    THEN [stats EXCEPT !.overdueEMIs = @ + 1, !.totalPending = @ + emi.totalAmount,
                       !.totalPenalty = @ + emi.penaltyAmount]
    ELSE stats

\* EMI.find({loanId}) and the forEach over the result, from document i on
RECURSIVE LoanStats(_, _, _, _)
LoanStats(coll, l, i, stats) ==
    IF i > Len(coll) THEN stats
    ELSE IF coll[i].loanId = l
         THEN LoanStats(coll, l, i + 1,
                 StatsAdd([stats EXCEPT !.totalEMIs = @ + 1], coll[i]))
         ELSE LoanStats(coll, l, i + 1, stats)

\* A route asks for the stats of loan l
GetLoanStats(p, l) ==
    /\ procs[p].pc = "idle"
    /\ lastDone' = [op |-> "stats", code |-> 200, id |-> l,
                    stats |-> LoanStats(emis, l, 1, NoStats)]
    /\ UNCHANGED <<today, loans, emis, procs, waivers, users, removed>>

-----------------------------------------------------------------------------
(* Schedule generation on its own: one approval per loan, over a range of  *)
(* amounts and durations.                                                  *)

GenAmounts == (MinAmount..(MinAmount + MaxGenSpan)) \cup {MaxAmount - 1, MaxAmount}
GenDays == (MinTotalDays..MaxGenDays) \cup {MaxTotalDays - 1, MaxTotalDays}

InitGen ==
    /\ today = 0
    /\ \E a \in {MinAmount, MinAmount + 1}, d \in {MinTotalDays, 3} :
          loans = [l \in LoanIds |-> NewLoan(a, d)]
    /\ emis = <<>>
    /\ procs = [p \in Procs |-> Idle]
    /\ lastDone = [op |-> "none"]
    /\ waivers = 0
    /\ users = InitUsers
    /\ removed = NoneRemoved

GenArgs(values, invalid) ==
    {Absent} \cup {Given(v) : v \in values \cup invalid}

NextGen ==
    \/ Tick(MaxGenDay)
    \/ \E a \in GenArgs(GenAmounts, {MinAmount - 1, MaxAmount + 1}),
          d \in GenArgs(GenDays, {MinTotalDays - 1, MaxTotalDays + 1}) :
            ApproveFind("h1", 1, a, d)
    \/ ApproveInsert("h1")
    \/ ApproveSave("h1")

SpecGen == InitGen /\ [][NextGen]_vars

\* Schedule generation on whatever the stored loan holds: the approval
\* sends no amount and no totalDays, so that generateEMISchedule runs on the
\* stored values, which here include values outside the validated ranges
RawAmounts == {-(MinAmount + 1), -1, 0, MinAmount}
RawDays == {-1, 0, 1, 2, 3}

InitRaw ==
    /\ today = 0
    /\ \E a \in RawAmounts, d \in RawDays :
          loans = [l \in LoanIds |-> NewLoan(a, d)]
    /\ emis = <<>>
    /\ procs = [p \in Procs |-> Idle]
    /\ lastDone = [op |-> "none"]
    /\ waivers = 0
    /\ users = InitUsers
    /\ removed = NoneRemoved

NextRaw ==
    \/ Tick(MaxGenDay)
    \/ ApproveFind("h1", 1, Absent, Absent)
    \/ ApproveInsert("h1")
    \/ ApproveSave("h1")

SpecRaw == InitRaw /\ [][NextRaw]_vars

-----------------------------------------------------------------------------
(* The handlers on the store *)

Init ==
    /\ today = 0
    /\ loans = [l \in LoanIds |-> NewLoan(MinAmount, MinTotalDays)]
    /\ emis = <<>>
    /\ procs = [p \in Procs |-> Idle]
    /\ lastDone = [op |-> "none"]
    /\ waivers = 0
    /\ users = InitUsers
    /\ removed = NoneRemoved

\* A request arrives: the handler's first store read.  BeginAccrual are the
\* two handlers that compute penalties, BeginOther the rest; days are the
\* totalDays an approval may ask for.
BeginAccrual(p) ==
    \/ SweepFind(p)
    \/ \E e \in DOMAIN emis : CancelRequestFind(p, e)

BeginOther(p, days) ==
    \/ \E l \in LoanIds, d \in days : ApproveFind(p, l, Absent, d)
    \/ \E e \in DOMAIN emis : MarkPaidFind(p, e)
    \/ \E e \in DOMAIN emis : ClearOverdueFind(p, e)
    \/ \E e \in DOMAIN emis : RequestPaymentFind(p, e, UserId)

Begin(p, days) == BeginAccrual(p) \/ BeginOther(p, days)

\* A handler in flight gets the answer of the store operation it awaits
Step(p) ==
    \/ ApproveInsert(p)
    \/ ApproveSave(p)
    \/ SweepSave(p)
    \/ SweepIncLoan(p)
    \/ MarkPaidSave(p)
    \/ MarkPaidLoan(p)
    \/ MarkPaidCount(p)
    \/ MarkPaidLoanSave(p)
    \/ CancelRequestInc(p)
    \/ CancelRequestSave(p)
    \/ ClearOverdueSave(p)
    \/ ClearOverdueLoan(p)
    \/ ClearOverdueLoanSave(p)
    \/ RequestPaymentSave(p)

\* The accrual sweep on its own handler: the daily cron job and the listing
\* endpoints that run it
Sweep(p) == SweepFind(p) \/ SweepSave(p) \/ SweepIncLoan(p)

\* Requests are handled by h1 while sweeps run concurrently on h2
Next == Tick(MaxRaceDay) \/ Begin("h1", {Absent}) \/ Step("h1") \/ Sweep("h2")

Spec == Init /\ [][Next]_vars

\* Requests are handled one after the other: each operation completes
\* before the next one starts
NextSeq == Tick(MaxDay) \/ Begin("h1", {Absent, Given(2)}) \/ Step("h1")

SpecSeq == Init /\ [][NextSeq]_vars

\* Only accrual sweeps and cancel-requests overlap, and they do so within
\* one day: every other request is handled alone and the day changes when
\* no handler is in flight
AccrualOnly(p) == procs[p].op \in {"none", "sweep", "cancelRequest"}

NextSweeps ==
    \/ AllIdle /\ Tick(MaxRaceDay)
    \/ AllIdle /\ BeginOther("h1", {Absent})
    \/ BeginAccrual("h1")
    \/ Step("h1")
    \/ AccrualOnly("h1") /\ SweepFind("h2")
    \/ SweepSave("h2")
    \/ SweepIncLoan("h2")

SpecSweeps == Init /\ [][NextSweeps]_vars

\* Requests are handled one after the other and a sweep may fail between
\* emi.save() and the increment of the loan
NextCrash == NextSeq \/ \E route \in SweepRoutes : SweepFail("h1", route)

SpecCrash == Init /\ [][NextCrash]_vars

\* Approval, sweeps, payments and the correction pass, one after the other,
\* on a clock that may also be set back
NextFix ==
    \/ Tick(MaxFixDay)
    \/ ClockBack
    \/ \E l \in LoanIds, d \in {Absent, Given(2)} : ApproveFind("h1", l, Absent, d)
    \/ ApproveInsert("h1")
    \/ ApproveSave("h1")
    \/ Sweep("h1")
    \/ \E e \in DOMAIN emis : MarkPaidFind("h1", e)
    \/ MarkPaidSave("h1")
    \/ MarkPaidLoan("h1")
    \/ MarkPaidCount("h1")
    \/ MarkPaidLoanSave("h1")
    \/ FixFind("h1")
    \/ FixSave("h1")
    \/ FixLoan("h1")
    \/ FixLoanSave("h1")

SpecFix == Init /\ [][NextFix]_vars

\* Approval, sweeps and payments one after the other, and the stats of the
\* loan in between
NextStats ==
    \/ Tick(MaxDay)
    \/ \E l \in LoanIds, d \in {Absent, Given(3)} : ApproveFind("h1", l, Absent, d)
    \/ ApproveInsert("h1")
    \/ ApproveSave("h1")
    \/ Sweep("h1")
    \/ \E e \in DOMAIN emis : MarkPaidFind("h1", e)
    \/ MarkPaidSave("h1")
    \/ MarkPaidLoan("h1")
    \/ MarkPaidCount("h1")
    \/ MarkPaidLoanSave("h1")
    \/ \E l \in LoanIds : GetLoanStats("h1", l)

SpecStats == Init /\ [][NextStats]_vars

\* Sweeps over a store that other hands have written (a manual edit, an
\* earlier version of the code): an approved loan of DriftDays EMIs whose
\* status, penaltyAmount and totalAmount need not agree with each other or
\* with the day
DriftDays == 2
DriftLoan ==
    [NewLoan(MinAmount, DriftDays) EXCEPT
        !.status = "approved", !.interestRate = InterestRate,
        !.startDate = 1, !.endDate = DriftDays, !.approvedAt = 0]

DriftEMIs(emi) ==
    {[emi EXCEPT !.status = st, !.penaltyAmount = pen, !.totalAmount = tot] :
        st \in {"pending", "overdue"},
        pen \in {Ceil(emi.principalAmount, 2) * k : k \in 0..2},
        tot \in {emi.principalAmount + emi.interestAmount + Ceil(emi.principalAmount, 2) * k :
                    k \in 0..2}}

InitDrift ==
    /\ today = 0
    /\ \E docs \in [1..DriftDays -> UNION {DriftEMIs(Schedule(1, DriftLoan, 0)[d]) :
                                             d \in 1..DriftDays}] :
          /\ \A d \in 1..DriftDays : docs[d].dayNumber = d
          /\ emis = docs
          /\ loans = [l \in LoanIds |->
                [DriftLoan EXCEPT !.penaltyAmount =
                    SumSeq([d \in 1..DriftDays |-> docs[d].penaltyAmount])]]
    /\ procs = [p \in Procs |-> Idle]
    /\ lastDone = [op |-> "none"]
    /\ waivers = 0
    /\ users = InitUsers
    /\ removed = NoneRemoved

NextDrift == Tick(MaxDay) \/ Sweep("h1")

SpecDrift == InitDrift /\ [][NextDrift]_vars

\* Two sweeps of the same day on two handlers, in any interleaving, over a
\* schedule of two EMIs: the day changes and the loan is approved while no
\* sweep is in flight
NextTwoSweeps ==
    \/ AllIdle /\ Tick(MaxDay)
    \/ AllIdle /\ \E l \in LoanIds : ApproveFind("h1", l, Absent, Given(2))
    \/ ApproveInsert("h1")
    \/ ApproveSave("h1")
    \/ procs["h1"].op \in {"none", "sweep"} /\ \E p \in Procs : Sweep(p)

SpecTwoSweeps == Init /\ [][NextTwoSweeps]_vars

\* Sweeps that keep being triggered, on a handler of their own, and may fail
\* after emi.save(): the steps of the sweep are taken whenever they stay
\* possible
NextLive ==
    \/ Tick(MaxDay)
    \/ \E l \in LoanIds : ApproveFind("h1", l, Absent, Given(2))
    \/ ApproveInsert("h1")
    \/ ApproveSave("h1")
    \/ Sweep("h2")
    \/ \E route \in SweepRoutes : SweepFail("h2", route)

SpecLive ==
    /\ Init
    /\ [][NextLive]_vars
    /\ WF_vars(SweepFind("h2"))
    /\ WF_vars(SweepSave("h2"))
    /\ WF_vars(SweepIncLoan("h2") \/ \E route \in SweepRoutes : SweepFail("h2", route))

\* Approvals and rejections of the loan only, two admins at once: approvals
\* on both handlers, rejections on h1
NextLoan ==
    \/ Tick(MaxRaceDay)
    \/ \E p \in Procs, l \in LoanIds, d \in {Absent, Given(2)} :
          ApproveFind(p, l, Absent, d)
    \/ \E p \in Procs : ApproveInsert(p)
    \/ \E p \in Procs : ApproveSave(p)
    \/ \E l \in LoanIds : Reject("h1", l)

SpecLoan == Init /\ [][NextLoan]_vars

-----------------------------------------------------------------------------
(* Properties *)

EmisOf(l) == {e \in DOMAIN emis : emis[e].loanId = l}

\* The sum of penaltyAmount over the EMIs of loan l
PenaltySum(l) ==
    SumSeq([e \in DOMAIN emis |->
              IF emis[e].loanId = l THEN emis[e].penaltyAmount ELSE 0])

\* C1: when operations run one after the other (schedule generation, sweep,
\* cancel-request, waiver, mark-paid, request-payment), then between two
\* operations each loan's penaltyAmount equals the sum of penaltyAmount over
\* all EMIs of that loan.
C1_LoanPenaltyIsSum ==
    AllIdle => \A l \in LoanIds : loans[l].penaltyAmount = PenaltySum(l)

C1_Witness ==
    /\ AllIdle
    /\ waivers > 0
    /\ \E l \in LoanIds : loans[l].penaltyAmount > 0
    /\ \E e \in DOMAIN emis : emis[e].status = "paid" /\ emis[e].penaltyAmount > 0
    /\ \E e \in DOMAIN emis : emis[e].status = "overdue" /\ emis[e].penaltyAmount > 0

\* C2: when accrual sweeps (or a sweep and a cancel-request) of the same day
\* overlap and every other operation runs alone, then once both handlers
\* have finished the loan's penaltyAmount equals the sum of its EMIs'
\* penaltyAmount.
C2_AggregateAfterOverlap ==
    (procs["h1"].pc = "idle" /\ procs["h2"].pc = "idle")
        => \A l \in LoanIds : PenaltySum(l) = loans[l].penaltyAmount

\* C3: once the stored status of an EMI is paid, no step of any handler
\* changes its status, penaltyAmount or totalAmount.
C3_PaidIsTerminal ==
    [][\A e \in DOMAIN emis :
          emis[e].status = "paid" =>
             /\ emis'[e].status = "paid"
             /\ emis'[e].penaltyAmount = emis[e].penaltyAmount
             /\ emis'[e].totalAmount = emis[e].totalAmount]_vars

\* C4: in every reachable state, also with a sweep running concurrently,
\* every EMI has totalAmount = principalAmount + interestAmount + penaltyAmount.
C4_TotalIsSum ==
    \A e \in DOMAIN emis :
        emis[e].totalAmount =
            emis[e].principalAmount + emis[e].interestAmount + emis[e].penaltyAmount

C4_Witness ==
    /\ \E e \in DOMAIN emis : emis[e].status = "overdue" /\ emis[e].penaltyAmount > 0
    /\ waivers > 0
    /\ procs["h2"].pc = "sweepInc"

\* C5 as stated: every overdue EMI has penaltyAmount = ceil(principalAmount/2)
\* times the number of whole days from its due date to today.
C5_OverduePenaltyExact ==
    \A e \in DOMAIN emis :
        emis[e].status = "overdue" =>
            emis[e].penaltyAmount =
                Ceil(emis[e].principalAmount, 2) * (today - emis[e].dueDate)

\* C5 as amended: every overdue EMI is past its due date and its
\* penaltyAmount is ceil(principalAmount/2) * k for some k from 0 (a waived
\* penalty) to the number of whole days from its due date to today (k is
\* the days overdue on the day the penalty was last computed).
C5_OverduePenaltyOfSomeDay ==
    \A e \in DOMAIN emis :
        emis[e].status = "overdue" =>
            /\ emis[e].dueDate < today
            /\ \E k \in 0..(today - emis[e].dueDate) :
                  emis[e].penaltyAmount = Ceil(emis[e].principalAmount, 2) * k

C5_Witness ==
    /\ \E e \in DOMAIN emis :
          /\ emis[e].status = "overdue"
          /\ emis[e].penaltyAmount = 0
    /\ \E e \in DOMAIN emis :
          /\ emis[e].status = "overdue"
          /\ today - emis[e].dueDate = 2
          /\ emis[e].penaltyAmount = Ceil(emis[e].principalAmount, 2)

\* C6: a sweep that starts right after a sweep of the same day has
\* completed, with no other operation in between, saves no EMI, increments
\* no loan and returns 0.
C6_SecondSweepIdle ==
    /\ \A p \in Procs :
          procs[p].pc \in {"sweepSave", "sweepInc"} => ~procs[p].repeat
    /\ (lastDone.op = "sweep" /\ lastDone.repeat) => lastDone.count = 0

C6_Witness ==
    /\ AllIdle
    /\ lastDone.op = "sweep"
    /\ lastDone.repeat
    /\ lastDone.today = today
    /\ Cardinality({e \in DOMAIN emis :
           emis[e].status = "overdue" /\ emis[e].penaltyAmount > 0}) = 2

\* C7: a step of the sweep or of cancel-request changes the status or the
\* penalty of an unpaid EMI only if the EMI was due before the handler's
\* today, and then the EMI is overdue with the penalty of k days, k >= 1
\* being the number of days from its due date to that today; so no EMI is
\* overdue or carries a penalty on or before its due date.
C7_OverdueOnlyAfterDueDate ==
    /\ [][\A p \in Procs, e \in DOMAIN emis :
            (/\ procs[p].op \in {"sweep", "cancelRequest"}
             /\ procs'[p] # procs[p]
             /\ emis[e].status # "paid"
             /\ \/ emis'[e].status # emis[e].status
                \/ emis'[e].penaltyAmount # emis[e].penaltyAmount)
            => /\ emis[e].dueDate < procs[p].today
               /\ emis'[e].status = "overdue"
               /\ LET k == procs[p].today - emis[e].dueDate
                  IN  /\ k >= 1
                      /\ emis'[e].penaltyAmount = Ceil(emis[e].principalAmount, 2) * k]_vars
    /\ [](\A e \in DOMAIN emis :
             (emis[e].status = "overdue" \/ emis[e].penaltyAmount > 0)
                => emis[e].dueDate < today)

C7_Witness ==
    /\ lastDone.op = "sweep"
    /\ lastDone.today = today
    /\ \E e \in DOMAIN emis :
          /\ emis[e].dueDate = today
          /\ emis[e].status = "pending"
          /\ emis[e].penaltyAmount = 0
          /\ emis[e].requestCanceled
    /\ \E e \in DOMAIN emis :
          /\ emis[e].dueDate + 1 = today
          /\ emis[e].status = "overdue"
          /\ emis[e].penaltyAmount = Ceil(emis[e].principalAmount, 2)

\* C8: the schedule of an approved loan with totalDays = N has exactly N
\* EMIs, one for each dayNumber 1..N, each pending with penaltyAmount 0,
\* principalAmount the least integer >= amount/N, interestAmount the least
\* integer >= 20% of amount / N, and totalAmount their sum.
C8_ScheduleShape ==
    \A l \in LoanIds :
        loans[l].status = "approved" =>
            LET n == loans[l].totalDays
                a == loans[l].amount
            IN  /\ Cardinality(EmisOf(l)) = n
                /\ {emis[e].dayNumber : e \in EmisOf(l)} = 1..n
                /\ \A e \in EmisOf(l) :
                      /\ emis[e].status = "pending"
                      /\ emis[e].penaltyAmount = 0
                      /\ emis[e].principalAmount * n >= a
                      /\ (emis[e].principalAmount - 1) * n < a
                      /\ emis[e].interestAmount * n * 100 >= a * 20
                      /\ (emis[e].interestAmount - 1) * n * 100 < a * 20
                      /\ emis[e].totalAmount =
                            emis[e].principalAmount + emis[e].interestAmount

C8_Witness ==
    \E l \in LoanIds :
        /\ loans[l].status = "approved"
        /\ loans[l].totalDays = 7
        /\ loans[l].amount = MinAmount + 1
        /\ Len(emis) = 7

C10_SumsCoverLoan ==
    \A l \in LoanIds :
        loans[l].status = "approved" =>
            /\ SumSeq([e \in DOMAIN emis |->
                  IF emis[e].loanId = l THEN emis[e].principalAmount ELSE 0])
                  >= loans[l].amount
            /\ 100 * SumSeq([e \in DOMAIN emis |->
                  IF emis[e].loanId = l THEN emis[e].interestAmount ELSE 0])
                  >= 20 * loans[l].amount

C10_Witness ==
    \E l \in LoanIds :
        /\ loans[l].status = "approved"
        /\ loans[l].amount = MaxAmount - 1
        /\ loans[l].totalDays = MaxTotalDays - 1
        /\ Len(emis) = MaxTotalDays - 1

\* C11: for every amount in 1000..100000 and totalDays in 1..365 the
\* rounding surplus of a generated schedule, the sum over its EMIs of
\* principalAmount + interestAmount minus amount * 1.20, is at most
\* totalDays - 1 for principal and interest combined.
C11_SurplusCombined ==
    \A l \in LoanIds :
        loans[l].status = "approved" =>
            100 * SumSeq([e \in DOMAIN emis |->
                     IF emis[e].loanId = l
                     THEN emis[e].principalAmount + emis[e].interestAmount
                     ELSE 0])
              - 120 * loans[l].amount
                <= 100 * (loans[l].totalDays - 1)

\* C11 as amended: the principal surplus is at most totalDays - 1 and the
\* interest surplus is less than totalDays, each on its own, so that the
\* combined surplus is less than 2 * totalDays - 1.
C11_SurplusEach ==
    \A l \in LoanIds :
        loans[l].status = "approved" =>
            LET n == loans[l].totalDays
                a == loans[l].amount
                sumP == SumSeq([e \in DOMAIN emis |->
                          IF emis[e].loanId = l THEN emis[e].principalAmount ELSE 0])
                sumI == SumSeq([e \in DOMAIN emis |->
                          IF emis[e].loanId = l THEN emis[e].interestAmount ELSE 0])
            IN  /\ sumP - a <= n - 1
                /\ 100 * sumI - 20 * a < 100 * n
                /\ 100 * (sumP + sumI) - 120 * a < 100 * (2 * n - 1)

C11_Witness ==
    \E l \in LoanIds :
        /\ loans[l].status = "approved"
        /\ loans[l].amount = MinAmount + 1
        /\ loans[l].totalDays = 5
        /\ Len(emis) = 5
        /\ 100 * SumSeq([e \in DOMAIN emis |->
                  emis[e].principalAmount + emis[e].interestAmount])
              - 120 * loans[l].amount > 100 * (loans[l].totalDays - 1)

\* C12: a loan leaves pending at most once: after any sequence of approve
\* and reject requests on the same loan, two interleaving approve requests
\* included, its schedule has been generated at most once, so dayNumber is
\* unique among the EMIs of the loan.
C12_DayNumberUnique ==
    \A l \in LoanIds :
        \A e1, e2 \in EmisOf(l) :
            emis[e1].dayNumber = emis[e2].dayNumber => e1 = e2

\* C13: after a successful reject of a pending loan the stored loan has
\* status rejected, for good: later approve and reject requests fail and no
\* EMI is created for the loan.
C13_RejectIsStored ==
    \A l \in LoanIds :
        lastDone.op = "reject" /\ lastDone.code = 200 =>
            /\ loans[l].status = "rejected"
            /\ EmisOf(l) = {}

\* C14: a loan is completed if and only if it was approved and all of its
\* EMIs are paid: the mark-paid that pays the last unpaid EMI completes the
\* loan, and no loan is completed while one of its EMIs is pending or
\* overdue.  Read between operations, when no handler is in flight.
C14_CompletedIffAllPaid ==
    AllIdle =>
        \A l \in LoanIds :
            loans[l].status = "completed" <=>
                /\ loans[l].approvedAt # NoDate
                /\ EmisOf(l) # {}
                /\ \A e \in EmisOf(l) : emis[e].status = "paid"

\* C15: waiving the penalty of a non-paid EMI with penaltyAmount p > 0 whose
\* loan has penaltyAmount L sets the EMI's penaltyAmount to 0 and its
\* totalAmount to principalAmount + interestAmount, leaves its status
\* unchanged and sets the loan's penaltyAmount to max(0, L - p).  Read on
\* the last step of a waiver that runs alone: `loaded` is the EMI and
\* loans the loan as they were when the waiver began.
C15_Waiver ==
    [][\A h \in Procs :
          procs[h].pc = "clearLoanSave" /\ procs'[h].pc = "idle" =>
             LET e == procs[h].id
                 l == emis[e].loanId
                 p == procs[h].loaded.penaltyAmount
                 L == loans[l].penaltyAmount
             IN  /\ p > 0
                 /\ procs[h].loaded.status # "paid"
                 /\ emis'[e].penaltyAmount = 0
                 /\ emis'[e].totalAmount =
                       emis'[e].principalAmount + emis'[e].interestAmount
                 /\ emis'[e].status = procs[h].loaded.status
                 /\ emis'[e] = [procs[h].loaded EXCEPT
                                  !.penaltyAmount = 0,
                                  !.totalAmount = @ - p]
                 /\ loans'[l].penaltyAmount = (IF L - p > 0 THEN L - p ELSE 0)
                 /\ loans'[l] = [loans[l] EXCEPT
                                  !.penaltyAmount = loans'[l].penaltyAmount]]_vars

\* A waiver has decremented the loan (another EMI still carries its penalty)
C15_Witness ==
    /\ AllIdle
    /\ lastDone.op = "clearOverdue" /\ lastDone.code = 200
    /\ \E e \in DOMAIN emis :
          /\ emis[e].status = "overdue"
          /\ emis[e].penaltyAmount = 0
          /\ loans[emis[e].loanId].penaltyAmount > 0
          /\ loans[emis[e].loanId].penaltyAmount = PenaltySum(emis[e].loanId)

\* A waiver has found less on the loan than the waived penalty: floored at 0
C15_WitnessFloor ==
    /\ AllIdle
    /\ lastDone.op = "clearOverdue" /\ lastDone.code = 200
    /\ \E e \in DOMAIN emis :
          /\ emis[e].status = "overdue"
          /\ emis[e].penaltyAmount = 0
          /\ loans[emis[e].loanId].penaltyAmount = 0
          /\ PenaltySum(emis[e].loanId) > 0

\* C20: when a sweep is interrupted after it has saved an EMI's new penalty
\* and before the increment of the loan, the next sweep that runs to its
\* end restores loan.penaltyAmount = sum of the loan's EMI penalties.
C20_SweepRepairsDrift ==
    AllIdle /\ lastDone.op = "sweep" /\ lastDone.code = 200 =>
        \A l \in LoanIds : loans[l].penaltyAmount = PenaltySum(l)

\* C16: after a penalty waiver the waived EMI's penaltyAmount stays 0
\* however many days overdue it is: later sweeps, of the same day or of a
\* later day, do not give it a penalty again until it is paid.  An unpaid
\* EMI that is overdue with penaltyAmount 0 is an EMI whose penalty was
\* waived: every other write of status overdue comes with a penalty of at
\* least one day.
C16_WaivedStaysZero ==
    [][\A e \in DOMAIN emis :
          emis[e].status = "overdue" /\ emis[e].penaltyAmount = 0 =>
              emis'[e].penaltyAmount = 0]_vars

\* C17: cancelling the payment request of an EMI that was due before today
\* leaves the EMI, in the same operation, overdue with penaltyAmount =
\* ceil(principalAmount/2) * daysOverdue and totalAmount = principal +
\* interest + penalty, and adds (new penalty - old penalty) to the loan's
\* penaltyAmount; a sweep that runs right after it with the same today does
\* not change that EMI.  The steps of a cancel-request that runs alone:
\* the increment of the loan comes first and is skipped when the penalty
\* does not change, emi.save() comes last.
C17_CancelAccrues ==
    [][\A h \in Procs :
          LET pr == procs[h]
              e == pr.id
              l == emis[e].loanId
              k == pr.today - emis[e].dueDate
              new == Ceil(emis[e].principalAmount, 2) * k
              old == emis[e].penaltyAmount
          IN  /\ (pr.pc = "cancelInc" /\ procs'[h] # pr) =>
                    /\ k >= 1
                    /\ loans'[l].penaltyAmount = loans[l].penaltyAmount + (new - old)
              /\ (pr.pc = "cancelSave" /\ procs'[h] # pr /\ k >= 1) =>
                    /\ emis'[e].status = "overdue"
                    /\ emis'[e].penaltyAmount = new
                    /\ emis'[e].totalAmount =
                          emis[e].principalAmount + emis[e].interestAmount + new
                    /\ loans' = loans
                    /\ loans[l].penaltyAmount = PenaltySum(l) + (new - old)
              /\ (pr.op = "sweep" /\ procs'[h] # pr
                    /\ lastDone.op = "cancelRequest" /\ lastDone.code = 200
                    /\ lastDone.today = pr.today) =>
                    emis'[lastDone.id] = emis[lastDone.id]]_vars

\* A sweep that began right after the cancel-request of a late EMI, on the
\* same day, is saving another EMI
C17_Witness ==
    \E h \in Procs :
        /\ procs[h].pc = "sweepSave"
        /\ lastDone.op = "cancelRequest" /\ lastDone.code = 200
        /\ lastDone.today = procs[h].today
        /\ procs[h].ids[procs[h].i] # lastDone.id
        /\ emis[lastDone.id].status = "overdue"
        /\ emis[lastDone.id].requestCanceled
        /\ emis[lastDone.id].penaltyAmount =
              2 * Ceil(emis[lastDone.id].principalAmount, 2)

\* C18: after a correction pass every unpaid EMI that is due on the day of
\* the pass or later is pending with penaltyAmount 0 and totalAmount =
\* principalAmount + interestAmount, also when it was overdue or carried a
\* penalty before the pass.
C18_NotLateIsPending ==
    AllIdle /\ lastDone.op = "fix" =>
        \A e \in DOMAIN emis :
            emis[e].status # "paid" /\ emis[e].dueDate >= lastDone.today =>
                /\ emis[e].status = "pending"
                /\ emis[e].penaltyAmount = 0
                /\ emis[e].totalAmount =
                      emis[e].principalAmount + emis[e].interestAmount

\* A pass has reset an EMI that is not late
C18_Witness ==
    /\ AllIdle
    /\ lastDone.op = "fix"
    /\ lastDone.reset > 0
    /\ \E e \in DOMAIN emis :
          emis[e].status = "pending" /\ emis[e].dueDate > lastDone.today

\* C19: after a correction pass the penaltyAmount of every loan with at
\* least one unpaid EMI is the sum of penaltyAmount over all the EMIs of the
\* loan, the paid EMIs that were paid with a penalty included.
C19_FixedLoanPenaltyIsSum ==
    AllIdle /\ lastDone.op = "fix" =>
        \A l \in LoanIds :
            (\E e \in EmisOf(l) : emis[e].status # "paid") =>
                loans[l].penaltyAmount = PenaltySum(l)

\* C21: whenever a sweep fails on a store error after it has computed a new
\* penalty, the operation that invoked it (process-overdues, or one of the
\* admin EMI listings that run it first) reports failure, not success.
C21_SweepErrorReported ==
    lastDone.op = "sweepError" => lastDone.code >= 400

C23_StatsPartition ==
    /\ [](lastDone.op = "stats" /\ AllIdle =>
            LET st == lastDone.stats
                l == lastDone.id
                Of(S) == {e \in EmisOf(l) : emis[e].status \in S}
                Total(S) == SumSeq([e \in DOMAIN emis |->
                               IF e \in Of(S) THEN emis[e].totalAmount ELSE 0])
            IN  /\ st.totalEMIs = Cardinality(EmisOf(l))
                /\ st.paidEMIs = Cardinality(Of({"paid"}))
                /\ st.pendingEMIs = Cardinality(Of({"pending"}))
                /\ st.overdueEMIs = Cardinality(Of({"overdue"}))
                /\ st.paidEMIs + st.pendingEMIs + st.overdueEMIs = st.totalEMIs
                /\ st.totalPaid = Total({"paid"})
                /\ st.totalPending = Total({"pending", "overdue"})
                /\ st.totalPenalty = SumSeq([e \in DOMAIN emis |->
                      IF e \in Of({"overdue"}) THEN emis[e].penaltyAmount ELSE 0]))
    /\ [][lastDone' # lastDone /\ lastDone'.op = "stats" =>
             emis' = emis /\ loans' = loans]_vars

\* Stats of a loan with a paid EMI that keeps its penalty, an overdue EMI
\* with a penalty and a pending EMI
C23_Witness ==
    /\ AllIdle
    /\ lastDone.op = "stats"
    /\ lastDone.stats.paidEMIs = 1
    /\ lastDone.stats.pendingEMIs = 1
    /\ lastDone.stats.overdueEMIs = 1
    /\ lastDone.stats.totalPenalty > 0
    /\ \E e \in DOMAIN emis : emis[e].status = "paid" /\ emis[e].penaltyAmount > 0

C25_CountIsChanged ==
    [][\A h \in Procs :
          /\ (procs[h].op = "sweep" /\ procs'[h].pc = "idle"
                /\ lastDone'.op = "sweep") =>
                lastDone'.count =
                    Cardinality({k \in DOMAIN procs[h].ids :
                        LET was == procs[h].docs[k]
                            is == emis'[procs[h].ids[k]]
                        IN  \/ is.status # was.status
                            \/ is.penaltyAmount # was.penaltyAmount
                            \/ is.totalAmount # was.totalAmount})
          /\ (AllIdle /\ procs' = procs
                /\ lastDone' # lastDone /\ lastDone'.op = "sweep") =>
                lastDone'.count = 0 /\ emis' = emis]_vars

\* A sweep has returned 2 after changing two EMIs
C25_Witness ==
    /\ AllIdle
    /\ lastDone.op = "sweep"
    /\ lastDone.count = 2
    /\ lastDone.today = today
    /\ Cardinality({e \in DOMAIN emis : emis[e].status = "overdue"
                       /\ emis[e].penaltyAmount > 0}) = 2

\* C26: a sweep leaves unchanged every EMI that is paid or due on the
\* sweep's today or later, and in the EMIs it does change it never changes
\* principalAmount, interestAmount, dueDate, dayNumber or the fields of the
\* payment request.
C26_SweepFrame ==
    [][\A h \in Procs :
          procs[h].op = "sweep" /\ procs'[h] # procs[h] =>
             \A e \in DOMAIN emis :
                /\ (emis[e].status = "paid" \/ emis[e].dueDate >= procs[h].today) =>
                      emis'[e] = emis[e]
                /\ emis'[e].principalAmount = emis[e].principalAmount
                /\ emis'[e].interestAmount = emis[e].interestAmount
                /\ emis'[e].dueDate = emis[e].dueDate
                /\ emis'[e].dayNumber = emis[e].dayNumber
                /\ emis'[e].loanId = emis[e].loanId
                /\ emis'[e].userId = emis[e].userId
                /\ emis'[e].paymentRequested = emis[e].paymentRequested
                /\ emis'[e].requestCanceled = emis[e].requestCanceled
                /\ emis'[e].paidViaRequest = emis[e].paidViaRequest]_vars

\* C27: two sweeps of the same today that interleave in any order leave
\* every EMI with the status, penaltyAmount and totalAmount that one sweep
\* alone leaves it with: overdue with the penalty of the day when it was due
\* before today, as generated otherwise.
C27_SweepsConverge ==
    (AllIdle /\ lastDone.op = "sweep" /\ lastDone.today = today) =>
        \A e \in DOMAIN emis :
            LET k == today - emis[e].dueDate
                new == Ceil(emis[e].principalAmount, 2) * k
            IN  IF k >= 1
                THEN /\ emis[e].status = "overdue"
                     /\ emis[e].penaltyAmount = new
                     /\ emis[e].totalAmount =
                           emis[e].principalAmount + emis[e].interestAmount + new
                ELSE /\ emis[e].status = "pending"
                     /\ emis[e].penaltyAmount = 0
                     /\ emis[e].totalAmount =
                           emis[e].principalAmount + emis[e].interestAmount

\* Both sweeps saved both EMIs on the same day: the loan has been
\* incremented twice for each, the EMIs carry the penalty once
C27_Witness ==
    /\ AllIdle
    /\ lastDone.op = "sweep" /\ lastDone.today = today
    /\ Len(emis) = 2
    /\ \A e \in DOMAIN emis : emis[e].status = "overdue" /\ emis[e].penaltyAmount > 0
    /\ \E l \in LoanIds : loans[l].penaltyAmount = 2 * PenaltySum(l)

\* C28: when sweeps keep being triggered, every EMI that is unpaid and due
\* before today is eventually overdue with the penalty of the current day,
\* also when sweeps are interrupted part-way.
C28_EventuallyAccrued ==
    \A e \in 1..2 :
        (e \in DOMAIN emis /\ emis[e].status # "paid" /\ emis[e].dueDate < today)
            ~> (/\ e \in DOMAIN emis
                /\ emis[e].status = "overdue"
                /\ emis[e].dueDate < today
                /\ emis[e].penaltyAmount =
                      Ceil(emis[e].principalAmount, 2) * (today - emis[e].dueDate))

\* After a sweep that failed, both EMIs carry the penalty of the day
C28_Witness ==
    /\ AllIdle
    /\ lastDone.op = "sweepError"
    /\ Len(emis) = 2
    /\ \A e \in DOMAIN emis :
          /\ emis[e].status = "overdue"
          /\ emis[e].penaltyAmount =
                Ceil(emis[e].principalAmount, 2) * (today - emis[e].dueDate)

\* C29: a waiver request on an EMI that is paid or whose penaltyAmount is 0
\* is answered with an error and changes neither the EMI nor the loan: only
\* a request on an unpaid EMI with a penalty goes on to its saves, the 400
\* answer is given for a paid or penalty-free EMI, and the step that gives
\* it writes nothing.
C29_WaiverRefused ==
    /\ [][\A h \in Procs :
            (procs[h].pc = "idle" /\ procs'[h].pc = "clearSave") =>
                /\ emis[procs'[h].id].status # "paid"
                /\ emis[procs'[h].id].penaltyAmount > 0]_vars
    /\ [][(lastDone' # lastDone /\ lastDone'.op = "clearOverdue"
             /\ lastDone'.code = 400) =>
                /\ emis' = emis
                /\ loans' = loans
                /\ \/ emis[lastDone'.id].status = "paid"
                   \/ emis[lastDone'.id].penaltyAmount = 0]_vars

\* The waiver of a paid EMI that keeps a penalty has just been refused
C29_Witness ==
    /\ AllIdle
    /\ lastDone.op = "clearOverdue" /\ lastDone.code = 400
    /\ emis[lastDone.id].status = "paid"
    /\ emis[lastDone.id].penaltyAmount > 0

-----------------------------------------------------------------------------
(* The approval's checks of the request body *)

\* Bodies an admin client can send: numbers inside and outside the ranges,
\* and strings that are or are not the text of a number
BodyAmounts ==
    {Absent, Given(MinAmount - 1), Given(MinAmount), Given(MaxAmount + 1),
     Text(<<"1", "5", "0", "0", "a", "b", "c">>), Text(<<"a", "b", "c">>),
     Text(<<" ", "2", "0", "0", "0">>), Text(<<"0", "x", "3", "E", "9">>),
     Text(<<"-", "1", "5", "0", "0">>), Text(<<>>)}
BodyDays ==
    {Absent, Given(MinTotalDays - 1), Given(2), Given(MaxTotalDays + 1),
     Text(<<"3", " ", "d", "a", "y", "s">>), Text(<<"2", "e", "2">>),
     Text(<<"3", "6", "6">>)}

NextBody ==
    \/ Tick(MaxGenDay)
    \/ \E l \in LoanIds, a \in BodyAmounts, d \in BodyDays :
          ApproveFind("h1", l, a, d)
    \/ ApproveInsert("h1")
    \/ ApproveSave("h1")

SpecBody == Init /\ [][NextBody]_vars

\* A body field that is a number: a JSON number, or a string that is nothing
\* but an optional sign and decimal digits
Numeric(field) ==
    \/ Len(field) = 1
    \/ /\ Len(field) = 2
       /\ LET s == field[2]
              u == IF Len(s) > 0 /\ s[1] \in {"+", "-"} THEN Tail(s) ELSE s
          IN  Len(u) > 0 /\ \A i \in 1..Len(u) : DigitVal(u[i]) < 10
NumericValue(field) ==
    IF Len(field) = 1 THEN field[1] ELSE ParseText(field[2]).value

\* C30: every stored loan that is approved or completed has its amount in
\* [1000,100000] and its totalDays in [1,365]; an approve request whose
\* amount or totalDays is out of range or not a number is rejected, and the
\* rejection leaves the stored loan and the EMIs as they were.  So a request
\* that is accepted carries, in each field it sends, a number in the range.
C30_InvalidRejected ==
    /\ [](\A l \in LoanIds :
            loans[l].status \in {"approved", "completed"} =>
                ValidAmount(loans[l].amount) /\ ValidDays(loans[l].totalDays))
    /\ [][\A h \in Procs :
            (procs[h].pc = "idle" /\ procs'[h].pc = "approveInsert") =>
                LET body == procs'[h].body
                IN  /\ IsNull(body.amount) \/
                         (Numeric(body.amount)
                            /\ ValidAmount(NumericValue(body.amount)))
                    /\ IsNull(body.totalDays) \/
                         (Numeric(body.totalDays)
                            /\ ValidDays(NumericValue(body.totalDays)))]_vars
    /\ [][(lastDone' # lastDone /\ lastDone'.op = "approve"
             /\ lastDone'.code = 400) =>
                loans' = loans /\ emis' = emis]_vars

-----------------------------------------------------------------------------
(* Two admins marking EMIs paid at once *)

\* Approvals, sweeps and the change of day happen when no request is in
\* flight; mark-paid requests run on both handlers and interleave
PayOnly == \A p \in Procs : procs[p].op \in {"none", "markPaid"}

NextPay ==
    \/ AllIdle /\ Tick(MaxRaceDay)
    \/ AllIdle /\ \E l \in LoanIds : ApproveFind("h1", l, Absent, Given(2))
    \/ ApproveInsert("h1")
    \/ ApproveSave("h1")
    \/ AllIdle /\ SweepFind("h1")
    \/ SweepSave("h1")
    \/ SweepIncLoan("h1")
    \/ PayOnly /\ \E p \in Procs, e \in DOMAIN emis : MarkPaidFind(p, e)
    \/ \E p \in Procs : MarkPaidSave(p)
    \/ \E p \in Procs : MarkPaidLoan(p)
    \/ \E p \in Procs : MarkPaidCount(p)
    \/ \E p \in Procs : MarkPaidLoanSave(p)

SpecPay == Init /\ [][NextPay]_vars

PaidSum(l) ==
    SumSeq([e \in DOMAIN emis |->
              IF emis[e].loanId = l /\ emis[e].status = "paid"
              THEN emis[e].totalAmount ELSE 0])

\* C31: once the mark-paid requests in flight have finished, also when two
\* of them on EMIs of the same loan or on the same EMI interleaved, each
\* loan's totalPaid equals the sum of totalAmount over its paid EMIs, each
\* EMI counted once.
C31_TotalPaidIsSum ==
    AllIdle => \A l \in LoanIds : loans[l].totalPaid = PaidSum(l)

-----------------------------------------------------------------------------
(* A user's payment request while an admin handles the same EMI *)

\* Admin requests (mark-paid, cancel-request) on h1, the user's
\* request-payment on h2; approvals and the change of day happen when no
\* request is in flight
NextFlags ==
    \/ AllIdle /\ Tick(MaxRaceDay)
    \/ AllIdle /\ \E l \in LoanIds : ApproveFind("h1", l, Absent, Absent)
    \/ ApproveInsert("h1")
    \/ ApproveSave("h1")
    \/ \E e \in DOMAIN emis : MarkPaidFind("h1", e)
    \/ MarkPaidSave("h1")
    \/ MarkPaidLoan("h1")
    \/ MarkPaidCount("h1")
    \/ MarkPaidLoanSave("h1")
    \/ \E e \in DOMAIN emis : CancelRequestFind("h1", e)
    \/ CancelRequestInc("h1")
    \/ CancelRequestSave("h1")
    \/ /\ procs["h1"].op \in {"none", "markPaid", "cancelRequest"}
       /\ \E e \in DOMAIN emis : RequestPaymentFind("h2", e, UserId)
    \/ RequestPaymentSave("h2")

SpecFlags == Init /\ [][NextFlags]_vars

\* C32: no stored EMI has paymentRequested and requestCanceled both true, a
\* paid EMI has paymentRequested false, and the request-payment that is
\* answered 400 (the EMI is paid or has an outstanding request) leaves the
\* EMIs as they were.
C32_RequestFlags ==
    /\ [](\A e \in DOMAIN emis :
            /\ ~(emis[e].paymentRequested /\ emis[e].requestCanceled)
            /\ emis[e].status = "paid" => ~emis[e].paymentRequested)
    /\ [][(lastDone' # lastDone /\ lastDone'.op = "requestPayment"
             /\ lastDone'.code = 400) => emis' = emis]_vars

-----------------------------------------------------------------------------
(* Two admins on one payment request: one confirms it, one cancels it *)

\* mark-paid on h1 and cancel-request on h2 interleave; approvals, the
\* user's request-payment and the change of day happen when no request is
\* in flight
NextVia ==
    \/ AllIdle /\ Tick(MaxRaceDay)
    \/ AllIdle /\ \E l \in LoanIds : ApproveFind("h1", l, Absent, Absent)
    \/ ApproveInsert("h1")
    \/ ApproveSave("h1")
    \/ AllIdle /\ \E e \in DOMAIN emis : RequestPaymentFind("h1", e, UserId)
    \/ RequestPaymentSave("h1")
    \/ /\ procs["h2"].op \in {"none", "cancelRequest"}
       /\ \E e \in DOMAIN emis : MarkPaidFind("h1", e)
    \/ MarkPaidSave("h1")
    \/ MarkPaidLoan("h1")
    \/ MarkPaidCount("h1")
    \/ MarkPaidLoanSave("h1")
    \/ /\ procs["h1"].op \in {"none", "markPaid"}
       /\ \E e \in DOMAIN emis : CancelRequestFind("h2", e)
    \/ CancelRequestInc("h2")
    \/ CancelRequestSave("h2")

SpecVia == Init /\ [][NextVia]_vars

\* C33: paidViaRequest is true only on paid EMIs, and the step that stores
\* it as true is the step that stores the EMI as paid, taken while the
\* stored EMI has an outstanding request that is not canceled; so an EMI
\* paid after its request was canceled, or without a request, never has
\* paidViaRequest true.
C33_PaidViaRequest ==
    /\ [](\A e \in DOMAIN emis :
            emis[e].paidViaRequest => emis[e].status = "paid")
    /\ [][\A e \in DOMAIN emis :
            (e \in DOMAIN emis' /\ ~emis[e].paidViaRequest
               /\ emis'[e].paidViaRequest) =>
                /\ emis[e].status # "paid" /\ emis'[e].status = "paid"
                /\ emis[e].paymentRequested
                /\ ~emis[e].requestCanceled
                /\ ~emis'[e].requestCanceled]_vars

\* C34: a cancel-request on an EMI that is paid or has no outstanding
\* request is answered 400 and changes neither the EMIs nor the loans: only
\* an unpaid EMI with an outstanding request goes on to the handler's
\* writes.  A cancel-request on an EMI due today or later writes no
\* increment to the loan, and its emi.save() changes paymentRequested and
\* requestCanceled only: status, penaltyAmount, totalAmount and the loan's
\* penaltyAmount stay as they were.
C34_CancelFrame ==
    /\ [][\A h \in Procs :
            /\ (procs[h].pc = "idle"
                  /\ procs'[h].pc \in {"cancelInc", "cancelSave"}) =>
                    /\ emis[procs'[h].id].status # "paid"
                    /\ emis[procs'[h].id].paymentRequested
            /\ (procs[h].pc = "idle" /\ procs'[h].pc = "cancelInc") =>
                    emis[procs'[h].id].dueDate < procs'[h].today
            /\ (procs[h].pc = "cancelSave" /\ procs'[h] # procs[h]
                  /\ emis[procs[h].id].dueDate >= procs[h].today) =>
                    /\ emis' = [emis EXCEPT ![procs[h].id] =
                                  [@ EXCEPT !.paymentRequested = FALSE,
                                            !.requestCanceled = TRUE]]
                    /\ loans' = loans]_vars
    /\ [][(lastDone' # lastDone /\ lastDone'.op = "cancelRequest"
             /\ lastDone'.code = 400) =>
                emis' = emis /\ loans' = loans]_vars

\* The request of an EMI that is not yet late has just been canceled
C34_Witness ==
    /\ AllIdle
    /\ lastDone.op = "cancelRequest" /\ lastDone.code = 200
    /\ emis[lastDone.id].dueDate >= lastDone.today
    /\ emis[lastDone.id].requestCanceled
    /\ emis[lastDone.id].status = "pending"
    /\ emis[lastDone.id].penaltyAmount = 0

\* C35: an accrual sweep that starts right after a correction pass, with the
\* same today, finds nothing to save: it writes neither an EMI nor a loan
\* and returns 0.  The correction pass has left every late unpaid EMI
\* overdue with the penalty of that day.
C35_SweepAfterFix ==
    /\ [](\A p \in Procs : procs[p].op = "sweep" => ~procs[p].afterFix)
    /\ []((lastDone.op = "sweep" /\ lastDone.afterFix) => lastDone.count = 0)
    /\ [][(AllIdle /\ lastDone.op = "fix" /\ lastDone.today = today
             /\ lastDone'.op = "sweep") =>
                emis' = emis /\ loans' = loans]_vars

\* A sweep has run right after a correction pass, with a late EMI in the
\* store
C35_Witness ==
    /\ AllIdle
    /\ lastDone.op = "sweep" /\ lastDone.afterFix
    /\ \E e \in DOMAIN emis :
          /\ emis[e].status = "overdue"
          /\ emis[e].dueDate < lastDone.today
          /\ emis[e].penaltyAmount > 0

-----------------------------------------------------------------------------
(* PUT /users/:id and DELETE /users/:id *)

\* protect, adminOnly: the request comes from a stored user whose role is
\* admin
AdminOnly(requester) ==
    requester \in DOMAIN users /\ users[requester] = "admin"

\* User.countDocuments({ role: 'admin' })
AdminCount == Cardinality({u \in DOMAIN users : users[u] = "admin"})

\* The role of the request body; "" when the body has none
BodyRoles == {"", "admin", "manager", "user", "guest"}

\* ['admin', 'manager'].includes(role) ? role : 'user'
NewRole(role) == IF role \in {"admin", "manager"} THEN role ELSE "user"

\* User.findById and the role change up to the first await
UpdateUserFind(p, requester, id, role) ==
    /\ procs[p].pc = "idle"
    /\ AdminOnly(requester)
    /\ IF id \notin DOMAIN users
       THEN /\ lastDone' = [op |-> "updateUser", code |-> 404]
            /\ UNCHANGED procs
       ELSE /\ LET user == users[id]
                   check == role # "" /\ role # user /\ role = "user"
                               /\ user = "admin"
                   mem == IF role # "" /\ role # user /\ ~check
                          THEN NewRole(role) ELSE user
               IN  procs' = [procs EXCEPT ![p] =
                      [pc |-> IF check THEN "updateCount" ELSE "updateSave",
                       op |-> "updateUser", id |-> id, requester |-> requester,
                       role |-> role, loaded |-> user, mem |-> mem]]
            /\ UNCHANGED lastDone
    /\ UNCHANGED <<today, loans, emis, waivers, users, removed>>

\* The answer of User.countDocuments({ role: 'admin' })
UpdateUserCount(p) ==
    /\ procs[p].pc = "updateCount"
    /\ IF AdminCount <= 1
       THEN /\ procs' = [procs EXCEPT ![p] = Idle]
            /\ lastDone' = [op |-> "updateUser", code |-> 400]
       ELSE /\ procs' = [procs EXCEPT ![p].pc = "updateSave",
                                      ![p].mem = NewRole(procs[p].role)]
            /\ UNCHANGED lastDone
    /\ UNCHANGED <<today, loans, emis, waivers, users, removed>>

\* user.save() and the response.  The role is written when it was modified;
\* the save of a user deleted in the meantime fails when it has something
\* to write, and fails or not, by the version of the library, when it has
\* nothing to write.
UpdateUserSave(p) ==
    /\ procs[p].pc = "updateSave"
    /\ LET pr == procs[p]
       IN  IF pr.id \in DOMAIN users
           THEN /\ users' = [users EXCEPT ![pr.id] =
                               IF pr.mem # pr.loaded THEN pr.mem ELSE @]
                /\ lastDone' = [op |-> "updateUser", code |-> 200]
           ELSE /\ UNCHANGED users
                /\ \E code \in IF pr.mem # pr.loaded THEN {500} ELSE {200, 500} :
                      lastDone' = [op |-> "updateUser", code |-> code]
    /\ procs' = [procs EXCEPT ![p] = Idle]
    /\ UNCHANGED <<today, loans, emis, waivers, removed>>

\* User.findById and the checks up to the first await
DeleteUserFind(p, requester, id) ==
    /\ procs[p].pc = "idle"
    /\ AdminOnly(requester)
    /\ IF id \notin DOMAIN users
       THEN /\ lastDone' = [op |-> "deleteUser", code |-> 404]
            /\ UNCHANGED procs
       ELSE IF id = requester
       THEN /\ lastDone' = [op |-> "deleteUser", code |-> 400]
            /\ UNCHANGED procs
       ELSE /\ procs' = [procs EXCEPT ![p] =
                  [pc |-> IF users[id] = "admin" THEN "deleteCount" ELSE "deleteEmis",
                   op |-> "deleteUser", id |-> id, requester |-> requester]]
            /\ UNCHANGED lastDone
    /\ UNCHANGED <<today, loans, emis, waivers, users, removed>>

\* The answer of User.countDocuments({ role: 'admin' })
DeleteUserCount(p) ==
    /\ procs[p].pc = "deleteCount"
    /\ IF AdminCount <= 1
       THEN /\ procs' = [procs EXCEPT ![p] = Idle]
            /\ lastDone' = [op |-> "deleteUser", code |-> 400]
       ELSE /\ procs' = [procs EXCEPT ![p].pc = "deleteEmis"]
            /\ UNCHANGED lastDone
    /\ UNCHANGED <<today, loans, emis, waivers, users, removed>>

\* EMI.deleteMany({ userId: user._id })
DeleteUserEmis(p) ==
    /\ procs[p].pc = "deleteEmis"
    /\ removed' = [removed EXCEPT !.emis =
                      @ \cup {e \in DOMAIN emis : emis[e].userId = procs[p].id}]
    /\ procs' = [procs EXCEPT ![p].pc = "deleteLoans"]
    /\ UNCHANGED <<today, loans, emis, lastDone, waivers, users>>

\* Notification.deleteMany (not modelled) and Loan.deleteMany({ userId: user._id })
DeleteUserLoans(p) ==
    /\ procs[p].pc = "deleteLoans"
    /\ removed' = [removed EXCEPT !.loans =
                      @ \cup {l \in LoanIds : loans[l].userId = procs[p].id}]
    /\ procs' = [procs EXCEPT ![p].pc = "deleteOne"]
    /\ UNCHANGED <<today, loans, emis, lastDone, waivers, users>>

\* User.deleteOne({ _id: user._id }) and the response
DeleteUserOne(p) ==
    /\ procs[p].pc = "deleteOne"
    /\ users' = [u \in DOMAIN users \ {procs[p].id} |-> users[u]]
    /\ lastDone' = [op |-> "deleteUser", code |-> 200]
    /\ procs' = [procs EXCEPT ![p] = Idle]
    /\ UNCHANGED <<today, loans, emis, waivers, removed>>

\* Role updates and deletions of users by the admins, on both handlers
NextUsers ==
    \/ \E p \in Procs, requester \in UserIds, id \in UserIds, role \in BodyRoles :
          UpdateUserFind(p, requester, id, role)
    \/ \E p \in Procs : UpdateUserCount(p)
    \/ \E p \in Procs : UpdateUserSave(p)
    \/ \E p \in Procs, requester \in UserIds, id \in UserIds :
          DeleteUserFind(p, requester, id)
    \/ \E p \in Procs : DeleteUserCount(p)
    \/ \E p \in Procs : DeleteUserEmis(p)
    \/ \E p \in Procs : DeleteUserLoans(p)
    \/ \E p \in Procs : DeleteUserOne(p)

SpecUsers == Init /\ [][NextUsers]_vars

\* C36: starting with at least one admin, after any role updates and
\* deletions of users, two of them interleaving or not, a user with role
\* admin exists; and the user that a deletion removes is never the admin
\* who sent the request.
C36_AdminRemains ==
    /\ [](\E u \in DOMAIN users : users[u] = "admin")
    /\ [][\A u \in DOMAIN users :
            u \notin DOMAIN users' =>
                \A p \in Procs :
                    (procs[p].pc = "deleteOne" /\ procs'[p].pc = "idle") =>
                        procs[p].requester # u]_vars

-----------------------------------------------------------------------------
(* DELETE /loans/:id *)

\* Loan.findById
DeleteLoanFind(p, requester, l) ==
    /\ procs[p].pc = "idle"
    /\ AdminOnly(requester)
    /\ IF l \in removed.loans
       THEN /\ lastDone' = [op |-> "deleteLoan", code |-> 404]
            /\ UNCHANGED procs
       ELSE /\ procs' = [procs EXCEPT ![p] =
                  [pc |-> "deleteLoanEmis", op |-> "deleteLoan", id |-> l]]
            /\ UNCHANGED lastDone
    /\ UNCHANGED <<today, loans, emis, waivers, users, removed>>

\* EMI.deleteMany({ loanId: loan._id })
DeleteLoanEmis(p) ==
    /\ procs[p].pc = "deleteLoanEmis"
    /\ removed' = [removed EXCEPT !.emis =
                      @ \cup {e \in DOMAIN emis : emis[e].loanId = procs[p].id}]
    /\ procs' = [procs EXCEPT ![p].pc = "deleteLoanOne"]
    /\ UNCHANGED <<today, loans, emis, lastDone, waivers, users>>

\* Loan.findByIdAndDelete(loan._id) and the response
DeleteLoanOne(p) ==
    /\ procs[p].pc = "deleteLoanOne"
    /\ removed' = [removed EXCEPT !.loans = @ \cup {procs[p].id}]
    /\ lastDone' = [op |-> "deleteLoan", code |-> 200]
    /\ procs' = [procs EXCEPT ![p] = Idle]
    /\ UNCHANGED <<today, loans, emis, waivers, users>>

\* The approval and the sweeps on h1, the deletions of loans and users on h2
NextDelete ==
    \/ AllIdle /\ Tick(MaxRaceDay)
    \/ \E l \in LoanIds : ApproveFind("h1", l, Absent, Absent)
    \/ ApproveInsert("h1")
    \/ ApproveSave("h1")
    \/ Sweep("h1")
    \/ \E requester \in UserIds, l \in LoanIds : DeleteLoanFind("h2", requester, l)
    \/ DeleteLoanEmis("h2")
    \/ DeleteLoanOne("h2")
    \/ \E requester \in UserIds, id \in UserIds : DeleteUserFind("h2", requester, id)
    \/ DeleteUserCount("h2")
    \/ DeleteUserEmis("h2")
    \/ DeleteUserLoans("h2")
    \/ DeleteUserOne("h2")

SpecDelete == Init /\ [][NextDelete]_vars

\* The documents that are in the collections
StoredEmis == DOMAIN emis \ removed.emis
StoredLoans == LoanIds \ removed.loans

\* C37: every stored EMI refers to a stored loan and a stored user, and
\* every stored loan to a stored user: once a loan is deleted none of its
\* EMIs is in the store, once a user is deleted none of their loans and EMIs
\* is, also when the deletion runs while an approval or a sweep of the same
\* loan is in flight.
C37_NoOrphans ==
    /\ \A e \in StoredEmis :
          /\ emis[e].loanId \in StoredLoans
          /\ emis[e].userId \in DOMAIN users
    /\ \A l \in StoredLoans : loans[l].userId \in DOMAIN users

====
